---- MODULE Spec2Model ----
(***************************************************************************)
(* Capital-Efficiency Radar (src/app.py): a Streamlit script that is run   *)
(* from top to bottom on every user interaction.  The model has one action *)
(* per kind of interaction; each action is one whole script run: the       *)
(* module-level cache load, the session-state initialisation, the sidebar  *)
(* handler that the clicked button triggers, and update_visualizations.    *)
(*                                                                         *)
(* Text is a sequence of chunks.  Strings that the code inspects (lookup   *)
(* strings, dataset keys, names, dates) are sequences of one-character     *)
(* chunks; strings that are only passed through are one opaque chunk.      *)
(*                                                                         *)
(* A number is an exact rational with a decimal exponent,                  *)
(* [n, d, e] = (n / d) * 10^e, kept in a unique normal form, so that the   *)
(* dollar amounts of the dataset (up to 10^12) fit the checker's integers. *)
(* Binary floating-point rounding is not modelled.                         *)
(***************************************************************************)
EXTENDS Integers, Sequences, FiniteSets, TLC

(***************************************************************************)
(* Bounds of the model                                                     *)
(***************************************************************************)
\* the add buttons are not pressed once MaxAdds adds of a session succeeded
MaxAdds == 2
\* the remove button is not pressed once dummy_update has reached MaxUpdates
MaxUpdates == 1
\* the runs of a behaviour happen on one of the dates NowDate(1) ..
\* NowDate(MaxClock)
MaxClock == 1

(***************************************************************************)
(* Text                                                                    *)
(***************************************************************************)
Upper == <<"A", "B", "C", "D", "E", "F", "G", "H", "I", "J", "K", "L", "M",
           "N", "O", "P", "Q", "R", "S", "T", "U", "V", "W", "X", "Y", "Z">>
Lower == <<"a", "b", "c", "d", "e", "f", "g", "h", "i", "j", "k", "l", "m",
           "n", "o", "p", "q", "r", "s", "t", "u", "v", "w", "x", "y", "z">>

ToLower == [c \in {Upper[i] : i \in 1..26} |-> Lower[CHOOSE i \in 1..26 : Upper[i] = c]]
ToUpper == [c \in {Lower[i] : i \in 1..26} |-> Upper[CHOOSE i \in 1..26 : Lower[i] = c]]

\* str.lower() on one character
lower_char(c) == IF c \in DOMAIN ToLower THEN ToLower[c] ELSE c

\* str.lower()
str_lower(s) == [i \in 1..Len(s) |-> lower_char(s[i])]

\* str.upper() on one character
upper_char(c) == IF c \in DOMAIN ToUpper THEN ToUpper[c] ELSE c

\* str.upper()
str_upper(s) == [i \in 1..Len(s) |-> upper_char(s[i])]

\* "-" in s
contains_dash(s) == \E i \in 1..Len(s) : s[i] = "-"

\* sep.join(parts), every part a text
RECURSIVE str_join(_, _)
str_join(sep, parts) ==
    IF Len(parts) = 0 THEN <<>>
    ELSE IF Len(parts) = 1 THEN parts[1]
    ELSE parts[1] \o <<sep>> \o str_join(sep, Tail(parts))

\* s.split(sep)[-1]: the chunks after the last separator
RECURSIVE split_last(_, _)
split_last(s, sep) ==
    IF \E i \in 1..Len(s) : s[i] = sep
    THEN split_last(Tail(s), sep)
    ELSE s

(***************************************************************************)
(* Numbers                                                                 *)
(***************************************************************************)
Abs(x) == IF x < 0 THEN -x ELSE x

RECURSIVE GCD(_, _)
GCD(a, b) == IF b = 0 THEN Abs(a) ELSE GCD(b, a % Abs(b))

\* (n / d) * 10^e in normal form: d is positive and has no factor 2 or 5,
\* n is not a multiple of 10, and n and d have no common factor
RECURSIVE Num(_, _, _)
Num(n, d, e) ==
    IF n = 0 THEN [n |-> 0, d |-> 1, e |-> 0]
    ELSE IF d < 0 THEN Num(-n, -d, e)
    ELSE IF d % 2 = 0 THEN Num(n * 5, d \div 2, e - 1)
    ELSE IF d % 5 = 0 THEN Num(n * 2, d \div 5, e - 1)
    ELSE IF n % 10 = 0 THEN Num(n \div 10, d, e + 1)
    ELSE LET g == GCD(n, d) IN [n |-> n \div g, d |-> d \div g, e |-> e]

Whole(k) == Num(k, 1, 0)

IsNum(x) == DOMAIN x = {"n", "d", "e"}

IsError(x) == "error" \in DOMAIN x

\* a * b, common factors cancelled before the products are formed
NumMul(a, b) ==
    LET g1 == GCD(a.n, b.d)
        g2 == GCD(b.n, a.d)
    IN  IF a.n = 0 \/ b.n = 0 THEN Num(0, 1, 0)
        ELSE Num((a.n \div g1) * (b.n \div g2),
                 (a.d \div g2) * (b.d \div g1), a.e + b.e)

\* a / b; a ZeroDivisionError when b is zero
NumDiv(a, b) ==
    IF b.n = 0 THEN [error |-> "ZeroDivisionError"]
    ELSE IF b.n < 0 THEN NumMul(a, [n |-> -b.d, d |-> -b.n, e |-> -b.e])
    ELSE NumMul(a, [n |-> b.d, d |-> b.n, e |-> -b.e])

RECURSIVE Pow10(_)
Pow10(k) == IF k = 0 THEN 1 ELSE 10 * Pow10(k - 1)

\* a > 0
NumPositive(a) == a.n > 0

\* round(p / q) for q > 0, ties to the even neighbour
RoundHalfEven(p, q) ==
    LET f == p \div q
        r == p % q
    IN  IF 2 * r < q THEN f
        ELSE IF 2 * r > q THEN f + 1
        ELSE IF f % 2 = 0 THEN f ELSE f + 1

\* f"{x:.1f}": the decimal text of x rounded to one place, kept as the number
\* of tenths it shows
format_1f(x) ==
    LET k == x.e + 1
    IN  IF k >= 0 THEN RoundHalfEven(x.n * Pow10(k), x.d)
        ELSE RoundHalfEven(x.n, x.d * Pow10(-k))

(***************************************************************************)
(* Dates                                                                   *)
(***************************************************************************)
Digits == <<"0", "1", "2", "3", "4", "5", "6", "7", "8", "9">>

IsDigit(c) == \E i \in 1..10 : Digits[i] = c

DigitValue(c) == (CHOOSE i \in 1..10 : Digits[i] = c) - 1

RECURSIVE ParseInt(_)
ParseInt(s) ==
    IF Len(s) = 0 THEN 0
    ELSE 10 * ParseInt(SubSeq(s, 1, Len(s) - 1)) + DigitValue(s[Len(s)])

IsLeap(y) == y % 4 = 0 /\ (y % 100 # 0 \/ y % 400 = 0)

DaysInMonth(y, m) ==
    IF m = 2 THEN (IF IsLeap(y) THEN 29 ELSE 28)
    ELSE IF m \in {4, 6, 9, 11} THEN 30 ELSE 31

RECURSIVE DaysBeforeMonth(_, _)
DaysBeforeMonth(y, m) ==
    IF m = 1 THEN 0 ELSE DaysBeforeMonth(y, m - 1) + DaysInMonth(y, m - 1)

\* date.toordinal(): days since 0001-01-01, that day being 1
ToOrdinal(date) ==
    LET y == date.year - 1
    IN  y * 365 + y \div 4 - y \div 100 + y \div 400
        + DaysBeforeMonth(date.year, date.month) + date.day

\* datetime.strptime(s, "%Y-%m-%d") on the zero-padded form the dataset uses
strptime(s) ==
    IF /\ Len(s) = 10
       /\ s[5] = "-" /\ s[8] = "-"
       /\ \A i \in {1, 2, 3, 4, 6, 7, 9, 10} : IsDigit(s[i])
    THEN LET y == ParseInt(SubSeq(s, 1, 4))
             m == ParseInt(SubSeq(s, 6, 7))
             d == ParseInt(SubSeq(s, 9, 10))
         IN  IF y >= 1 /\ m \in 1..12 /\ d >= 1 /\ d <= DaysInMonth(y, m)
             THEN [year |-> y, month |-> m, day |-> d]
             ELSE [error |-> "ValueError"]
    ELSE [error |-> "ValueError"]

\* (datetime.now() - founded_date).days: founded_date is a midnight, so the
\* whole days between the two instants are the days between the two dates
days_between(now_date, founded_date) ==
    ToOrdinal(now_date) - ToOrdinal(founded_date)

(***************************************************************************)
(* The dataset                                                             *)
(***************************************************************************)
NA == <<"N", "/", "A">>

OPENAI_UUID == <<"7", "1", "6", "f", "3", "6", "1", "3", "-", "0", "3", "6", "e", "-", "4", "8", "1", "4", "-", "9", "0", "0", "3", "-", "7", "7", "9", "5", "2", "6", "b", "5", "8", "f", "0", "c">>
PERPLEXITY_UUID == <<"p", "e", "r", "p", "l", "e", "x", "i", "t", "y", "-", "a", "i", "-", "m", "o", "c", "k", "-", "u", "u", "i", "d", "-", "0", "0", "1">>
ANTHROPIC_UUID == <<"a", "n", "t", "h", "r", "o", "p", "i", "c", "-", "m", "o", "c", "k", "-", "u", "u", "i", "d", "-", "0", "0", "2">>
DEEPSEEK_UUID == <<"d", "e", "e", "p", "s", "e", "e", "k", "-", "a", "i", "-", "m", "o", "c", "k", "-", "u", "u", "i", "d", "-", "0", "0", "1">>

OPENAI_NAME == <<"O", "p", "e", "n", "A", "I">>
PERPLEXITY_NAME == <<"P", "e", "r", "p", "l", "e", "x", "i", "t", "y", " ", "A", "I">>
ANTHROPIC_NAME == <<"A", "n", "t", "h", "r", "o", "p", "i", "c">>
DEEPSEEK_NAME == <<"D", "e", "e", "p", "s", "e", "e", "k", " ", "A", "I">>

\* a company of MOCK_COMPANY_DATA; value_usd amounts as numbers m * 10^e
Company(uuid, name, logo, tags, founded, website, location, categories, employee_count, funding, valuation, revenue, growth, burn, months, margin, cac, ltv, tam, sam) ==
    [uuid |-> uuid, logo |-> logo, name |-> name, tags |-> tags,
     founded |-> founded, website |-> website, location |-> location,
     categories |-> categories, employee_count |-> employee_count,
     funding_rounds_headline |-> [funding_total |-> [value_usd |-> funding]],
     valuation |-> [value_usd |-> valuation],
     revenue |-> [value_usd |-> revenue],
     growth_rate |-> [value |-> growth],
     burn_rate |-> [value_usd |-> burn],
     runway |-> [months |-> months],
     unit_economics |-> [gross_margin |-> margin,
                         customer_acquisition_cost |-> cac,
                         customer_lifetime_value |-> ltv],
     market_size |-> [total_addressable_market |-> tam,
                      serviceable_available_market |-> sam]]

US_LOCATION == <<"San Francisco", "California", "United States", "North America">>

OPENAI ==
    Company(OPENAI_UUID, OPENAI_NAME, "logo:openai",
            <<"unicorn", "ai", "large language model", "enterprise">>,
            <<"2", "0", "1", "5", "-", "1", "2", "-", "1", "1">>,
            "https://www.openai.com", US_LOCATION,
            <<"Artificial Intelligence (AI)", "Generative AI",
              "Machine Learning", "Enterprise Software">>,
            <<"1", "0", "0", "1", "-", "5", "0", "0", "0">>,
            Num(619, 1, 8), Num(29, 1, 9), Num(1, 1, 9), Num(15, 10, 0),
            Num(1, 1, 8), 24, Num(75, 100, 0), 100, 5000,
            Num(1, 1, 12), Num(5, 1, 11))

PERPLEXITY ==
    Company(PERPLEXITY_UUID, PERPLEXITY_NAME, "logo:perplexity",
            <<"ai search", "answer engine", "consumer">>,
            <<"2", "0", "2", "2", "-", "0", "8", "-", "0", "1">>,
            "https://www.perplexity.ai", US_LOCATION,
            <<"Artificial Intelligence (AI)", "Search Engine",
              "Conversational AI", "Consumer Software">>,
            <<"5", "1", "-", "2", "0", "0">>,
            Num(1, 1, 8), Num(1, 1, 9), Num(1, 1, 7), Num(25, 10, 0),
            Num(2, 1, 6), 18, Num(85, 100, 0), 50, 2000,
            Num(5, 1, 10), Num(2, 1, 10))

ANTHROPIC ==
    Company(ANTHROPIC_UUID, ANTHROPIC_NAME, "logo:anthropic",
            <<"ai", "large language model", "ai safety", "enterprise">>,
            <<"2", "0", "2", "1", "-", "0", "1", "-", "0", "1">>,
            "https://www.anthropic.com", US_LOCATION,
            <<"Artificial Intelligence (AI)", "Generative AI",
              "Machine Learning", "AI Safety", "Enterprise Software">>,
            <<"5", "0", "1", "-", "1", "0", "0", "0">>,
            Num(73, 1, 8), Num(1, 1, 10), Num(5, 1, 8), Num(18, 10, 0),
            Num(5, 1, 7), 20, Num(70, 100, 0), 150, 4000,
            Num(8, 1, 11), Num(4, 1, 11))

DEEPSEEK ==
    Company(DEEPSEEK_UUID, DEEPSEEK_NAME, "logo:anthropic",
            <<"ai", "large language model", "enterprise", "research">>,
            <<"2", "0", "2", "2", "-", "0", "1", "-", "0", "1">>,
            "https://www.deepseek.ai",
            <<"Seoul", "South Korea", "Asia">>,
            <<"Artificial Intelligence (AI)", "Generative AI",
              "Machine Learning", "Enterprise Software", "Research">>,
            <<"2", "0", "1", "-", "5", "0", "0">>,
            Num(5, 1, 8), Num(2, 1, 9), Num(1, 1, 8), Num(2, 1, 0),
            Num(1, 1, 7), 24, Num(75, 100, 0), 120, 3500,
            Num(3, 1, 11), Num(15, 1, 10))

\* the keys of MOCK_COMPANY_DATA in the order the dict literal lists them,
\* which is the order .items() iterates in
MOCK_COMPANY_KEYS == <<OPENAI_UUID, PERPLEXITY_UUID, ANTHROPIC_UUID, DEEPSEEK_UUID>>

MOCK_COMPANY_DATA ==
    (OPENAI_UUID :> OPENAI) @@ (PERPLEXITY_UUID :> PERPLEXITY)
    @@ (ANTHROPIC_UUID :> ANTHROPIC) @@ (DEEPSEEK_UUID :> DEEPSEEK)

None == [type |-> "NoneType"]

\* find_by_name if it compared the names as they are written
RECURSIVE find_by_name_case_sensitive(_, _)
find_by_name_case_sensitive(info_id, i) ==
    IF i > Len(MOCK_COMPANY_KEYS) THEN None
    ELSE LET company_data == MOCK_COMPANY_DATA[MOCK_COMPANY_KEYS[i]]
         IN  IF company_data.name = info_id
             THEN company_data
             ELSE find_by_name_case_sensitive(info_id, i + 1)

\* the loop of fetch_company over MOCK_COMPANY_DATA.items(), from position i
RECURSIVE find_by_name(_, _)
find_by_name(info_id, i) ==
    IF i > Len(MOCK_COMPANY_KEYS) THEN None
    ELSE LET company_data == MOCK_COMPANY_DATA[MOCK_COMPANY_KEYS[i]]
         IN  IF str_lower(company_data.name) = str_lower(info_id)
             THEN company_data
             ELSE find_by_name(info_id, i + 1)

\* fetch_company if it fell back to the first company of the dataset
fetch_company_or_first(info_id) ==
    IF info_id \in DOMAIN MOCK_COMPANY_DATA
    THEN MOCK_COMPANY_DATA[info_id]
    ELSE IF find_by_name(info_id, 1) # None THEN find_by_name(info_id, 1)
    ELSE MOCK_COMPANY_DATA[MOCK_COMPANY_KEYS[1]]

fetch_company(info_id) ==
    IF info_id \in DOMAIN MOCK_COMPANY_DATA
    THEN MOCK_COMPANY_DATA[info_id]
    ELSE find_by_name(info_id, 1)

(***************************************************************************)
(* Formatted text: a prefix, a decimal number shown with `places` decimal  *)
(* places, and a suffix, as the f-strings of add_company build it          *)
(***************************************************************************)
\* f"{pre}{x:.1f}{post}"
fstring_1f(pre, x, post) ==
    [pre |-> pre, digits |-> format_1f(x), places |-> 1, post |-> post]

\* f"{pre}{k}{post}" for an int k
fstring_int(pre, k, post) ==
    [pre |-> pre, digits |-> k, places |-> 0, post |-> post]

\* t.replace(old, "")
str_replace(t, old) ==
    [t EXCEPT !.pre = IF @ = old THEN "" ELSE @,
              !.post = IF @ = old THEN "" ELSE @]

\* float(t): only the bare number converts
float(t) ==
    IF t.pre = "" /\ t.post = ""
    THEN Num(t.digits, Pow10(t.places), 0)
    ELSE [error |-> "ValueError"]

(***************************************************************************)
(* The table st.session_state.df                                           *)
(***************************************************************************)
Range(seq) == {seq[i] : i \in 1..Len(seq)}

NaN == [nan |-> TRUE]

\* a text cell
Text(s) == [text |-> s]

\* the columns of the frame that the session-state initialisation creates
INITIAL_COLUMNS ==
    <<"Company Name", "Crunchbase UUID", "Country", "Employee Count",
      "Funding (USD)", "Founded Date", "Website", "Categories", "Tags",
      "Age (Years)", "Capital Efficiency Score">>

\* the keys of new_row in the order of the dict literal
NEW_ROW_COLUMNS ==
    <<"Company Name", "Crunchbase UUID", "Country", "Employee Count",
      "Funding (USD)", "Founded Date", "Website", "Categories", "Tags",
      "Age (Years)", "Capital Efficiency Score", "Valuation (USD)",
      "Revenue (USD)", "Growth Rate", "Burn Rate (USD)", "Runway (Months)",
      "Gross Margin", "CAC", "LTV", "TAM (USD)", "SAM (USD)">>

\* pd.DataFrame(columns=[...]) and pd.DataFrame()
DataFrame(columns) == [columns |-> columns, rows |-> <<>>]

\* a row seen through the columns of a frame: missing cells are NaN
reindex(row, columns) ==
    [c \in Range(columns) |-> IF c \in DOMAIN row THEN row[c] ELSE NaN]

\* concat if the list passed to pd.concat left the old frame out
concat_new_only(df, new_row) ==
    [columns |-> NEW_ROW_COLUMNS,
     rows |-> <<reindex(new_row, NEW_ROW_COLUMNS)>>]

\* pd.concat([df, pd.DataFrame([new_row])], ignore_index=True)
concat(df, new_row) ==
    LET columns == df.columns
                   \o SelectSeq(NEW_ROW_COLUMNS, LAMBDA c : c \notin Range(df.columns))
    IN  [columns |-> columns,
         rows |-> [i \in 1..Len(df.rows) |-> reindex(df.rows[i], columns)]
                  \o <<reindex(new_row, columns)>>]

\* drop_name if it dropped only the first row of that name
drop_first_named(df, name) ==
    LET named == {i \in 1..Len(df.rows) : df.rows[i]["Company Name"] = Text(name)}
        first == CHOOSE i \in named : \A k \in named : i <= k
    IN  IF named = {} THEN df
        ELSE [df EXCEPT !.rows = SubSeq(@, 1, first - 1)
                                 \o SubSeq(@, first + 1, Len(@))]

\* df[df["Company Name"] != name]
drop_name(df, name) ==
    [df EXCEPT !.rows = SelectSeq(@, LAMBDA r : r["Company Name"] # Text(name))]

\* has_name if a table with rows were taken to hold every name
has_name_any(df, name) == Len(df.rows) > 0

\* name in df["Company Name"].values
has_name(df, name) ==
    \E i \in 1..Len(df.rows) : df.rows[i]["Company Name"] = Text(name)

(***************************************************************************)
(* add_company                                                             *)
(***************************************************************************)
MILLION == Num(1, 1, 6)
BILLION == Num(1, 1, 9)

\* the dict company_info
company_info(company_data) ==
    [Name |-> company_data.name,
     Location |-> str_join(", ", [i \in 1..Len(company_data.location) |->
                                     <<company_data.location[i]>>]),
     Founded |-> company_data.founded,
     EmployeeCount |-> company_data.employee_count,
     FundingTotal |-> fstring_1f("$", NumDiv(company_data.funding_rounds_headline.funding_total.value_usd, MILLION), "M"),
     Tags |-> str_join(", ", [i \in 1..Len(company_data.tags) |->
                                 <<company_data.tags[i]>>]),
     Categories |-> str_join(", ", [i \in 1..Len(company_data.categories) |->
                                       <<company_data.categories[i]>>]),
     Website |-> <<company_data.website>>,
     Valuation |-> fstring_1f("$", NumDiv(company_data.valuation.value_usd, BILLION), "B"),
     Revenue |-> fstring_1f("$", NumDiv(company_data.revenue.value_usd, MILLION), "M"),
     GrowthRate |-> fstring_1f("", company_data.growth_rate.value, "x"),
     BurnRate |-> fstring_1f("$", NumDiv(company_data.burn_rate.value_usd, MILLION), "M/mo"),
     Runway |-> fstring_int("", company_data.runway.months, " months"),
     GrossMargin |-> fstring_1f("", NumMul(company_data.unit_economics.gross_margin, Whole(100)), "%"),
     CAC |-> fstring_int("$", company_data.unit_economics.customer_acquisition_cost, ""),
     LTV |-> fstring_int("$", company_data.unit_economics.customer_lifetime_value, ""),
     TAM |-> fstring_1f("$", NumDiv(company_data.market_size.total_addressable_market, BILLION), "B"),
     SAM |-> fstring_1f("$", NumDiv(company_data.market_size.serviceable_available_market, BILLION), "B")]

\* age_years if the days were not divided by 365
age_years_in_days(info, now_date) ==
    IF info.Founded # NA
    THEN LET founded_date == strptime(info.Founded)
         IN  IF IsError(founded_date) THEN Whole(0)
             ELSE Whole(days_between(now_date, founded_date))
    ELSE Whole(0)

\* age_years: 0 unless the founded date parses
age_years(info, now_date) ==
    IF info.Founded # NA
    THEN LET founded_date == strptime(info.Founded)
         IN  IF IsError(founded_date) THEN Whole(0)
             ELSE Num(days_between(now_date, founded_date), 365, 0)
    ELSE Whole(0)

\* x * y and x / y that pass an error of an operand on
times(x, y) == IF IsError(x) THEN x ELSE IF IsError(y) THEN y ELSE NumMul(x, y)
over(x, y) == IF IsError(x) THEN x ELSE IF IsError(y) THEN y ELSE NumDiv(x, y)

\* new_row if 'Employee Count' took the founded date of company_info
new_row_wrong_key(company_input, info, age) ==
        ("Company Name" :> Text(info.Name))
     @@ ("Crunchbase UUID" :> IF contains_dash(company_input)
                              THEN Text(company_input) ELSE Text(NA))
     @@ ("Country" :> Text(split_last(info.Location, ", ")))
     @@ ("Employee Count" :> Text(info.Founded))
     @@ ("Funding (USD)" :> times(float(str_replace(str_replace(info.FundingTotal, "$"), "M")), MILLION))
     @@ ("Founded Date" :> Text(info.Founded))
     @@ ("Website" :> Text(info.Website))
     @@ ("Categories" :> Text(info.Categories))
     @@ ("Tags" :> Text(info.Tags))
     @@ ("Age (Years)" :> age)
     @@ ("Capital Efficiency Score" :> over(times(float(str_replace(str_replace(info.FundingTotal, "$"), "M")), MILLION), age))
     @@ ("Valuation (USD)" :> times(float(str_replace(str_replace(info.Valuation, "$"), "B")), BILLION))
     @@ ("Revenue (USD)" :> times(float(str_replace(str_replace(info.Revenue, "$"), "M")), MILLION))
     @@ ("Growth Rate" :> float(str_replace(info.GrowthRate, "x")))
     @@ ("Burn Rate (USD)" :> times(float(str_replace(str_replace(info.BurnRate, "$"), "M/mo")), MILLION))
     @@ ("Runway (Months)" :> float(str_replace(info.Runway, " months")))
     @@ ("Gross Margin" :> over(float(str_replace(info.GrossMargin, "%")), Whole(100)))
     @@ ("CAC" :> float(str_replace(info.CAC, "$")))
     @@ ("LTV" :> float(str_replace(info.LTV, "$")))
     @@ ("TAM (USD)" :> times(float(str_replace(str_replace(info.TAM, "$"), "B")), BILLION))
     @@ ("SAM (USD)" :> times(float(str_replace(str_replace(info.SAM, "$"), "B")), BILLION))

\* the dict new_row
new_row(company_input, info, age) ==
        ("Company Name" :> Text(info.Name))
     @@ ("Crunchbase UUID" :> IF contains_dash(company_input)
                              THEN Text(company_input) ELSE Text(NA))
     @@ ("Country" :> Text(split_last(info.Location, ", ")))
     @@ ("Employee Count" :> Text(info.EmployeeCount))
     @@ ("Funding (USD)" :> times(float(str_replace(str_replace(info.FundingTotal, "$"), "M")), MILLION))
     @@ ("Founded Date" :> Text(info.Founded))
     @@ ("Website" :> Text(info.Website))
     @@ ("Categories" :> Text(info.Categories))
     @@ ("Tags" :> Text(info.Tags))
     @@ ("Age (Years)" :> age)
     @@ ("Capital Efficiency Score" :> over(times(float(str_replace(str_replace(info.FundingTotal, "$"), "M")), MILLION), age))
     @@ ("Valuation (USD)" :> times(float(str_replace(str_replace(info.Valuation, "$"), "B")), BILLION))
     @@ ("Revenue (USD)" :> times(float(str_replace(str_replace(info.Revenue, "$"), "M")), MILLION))
     @@ ("Growth Rate" :> float(str_replace(info.GrowthRate, "x")))
     @@ ("Burn Rate (USD)" :> times(float(str_replace(str_replace(info.BurnRate, "$"), "M/mo")), MILLION))
     @@ ("Runway (Months)" :> float(str_replace(info.Runway, " months")))
     @@ ("Gross Margin" :> over(float(str_replace(info.GrossMargin, "%")), Whole(100)))
     @@ ("CAC" :> float(str_replace(info.CAC, "$")))
     @@ ("LTV" :> float(str_replace(info.LTV, "$")))
     @@ ("TAM (USD)" :> times(float(str_replace(str_replace(info.TAM, "$"), "B")), BILLION))
     @@ ("SAM (USD)" :> times(float(str_replace(str_replace(info.SAM, "$"), "B")), BILLION))

\* the first exception raised while the dict new_row is evaluated, if any
RECURSIVE first_error(_, _)
first_error(row, i) ==
    IF i > Len(NEW_ROW_COLUMNS) THEN None
    ELSE IF IsError(row[NEW_ROW_COLUMNS[i]]) THEN row[NEW_ROW_COLUMNS[i]]
    ELSE first_error(row, i + 1)

\* str(e) of the exceptions the handlers catch
exception_text(e) ==
    IF e.error = "AttributeError"
    THEN "'NoneType' object has no attribute 'get'"
    ELSE IF e.error = "ZeroDivisionError" THEN "float division by zero"
    ELSE IF e.error = "ValueError" THEN "could not convert string to float"
    ELSE IF e.error = "KeyError" THEN "'Company Name'"
    ELSE "name 'fig' is not defined"

st_error(prefix, e) ==
    [call |-> "st.error", text |-> <<prefix, exception_text(e)>>]

\* lines 397-405: the row is appended unless evaluating it raised e
add_company_append(ss, company_data, info, card, row, e) ==
    IF e # None
    THEN [session_state |-> ss, ok |-> FALSE, fetched |-> company_data,
          shown |-> <<card, st_error("Error displaying company: ", e)>>]
    ELSE [session_state |->
              ("df" :> concat(IF "df" \in DOMAIN ss THEN ss["df"]
                              ELSE DataFrame(<<>>), row)) @@ ss,
          ok |-> TRUE, fetched |-> company_data,
          shown |-> <<card,
                      [call |-> "st.success",
                       text |-> <<"Successfully added ">> \o info.Name]>>]

\* lines 363-395: the age and the row
add_company_row(ss, company_data, info, card, row) ==
    add_company_append(ss, company_data, info, card, row, first_error(row, 1))

\* lines 332-361: the company card
add_company_card(company_input, ss, now_date, company_data, info) ==
    add_company_row(ss, company_data, info,
                    [call |-> "st.expander",
                     text |-> <<" COMPANY CARD FOR ">> \o str_upper(info.Name)],
                    new_row(company_input, info, age_years(info, now_date)))

\* lines 310-330: company_info, an AttributeError when company_data is None
add_company_fetched(company_input, ss, now_date, company_data) ==
    IF company_data = None
    THEN [session_state |-> ss, ok |-> FALSE, fetched |-> company_data,
          shown |-> <<st_error("Error displaying company: ",
                               [error |-> "AttributeError"])>>]
    ELSE add_company_card(company_input, ss, now_date, company_data,
                          company_info(company_data))

\* add_company(company_input) on session state ss at date now_date:
\* the session state it leaves, what it shows, and whether it succeeded
add_company(company_input, ss, now_date) ==
    add_company_fetched(company_input, ss, now_date, fetch_company(company_input))

(***************************************************************************)
(* The cache: company_cache and the file .cache/company_cache.json         *)
(***************************************************************************)
\* the dict {}
EMPTY_DICT == [k \in {} |-> None]

\* json.dump(obj, f): the text of the file
json_dump(obj) == [json |-> obj]

\* json.load(f): the object a JSON text holds, JSONDecodeError for other text
json_load(text) ==
    IF "json" \in DOMAIN text THEN [value |-> text.json]
    ELSE [error |-> "JSONDecodeError"]

\* lines 26-34: the module-level load of company_cache.  The handler of
\* JSONDecodeError uses the name logger, which is bound only at line 47
load_cache(file) ==
    IF ~file.exists THEN [crashed |-> FALSE, company_cache |-> EMPTY_DICT]
    ELSE IF IsError(json_load(file.text))
    THEN [crashed |-> TRUE, company_cache |-> EMPTY_DICT]
    ELSE [crashed |-> FALSE, company_cache |-> json_load(file.text).value]

\* cached_under_name if it did not compare the name
cached_any_dict(cached_data, name) == cached_data.type = "dict"

\* isinstance(cached_data, dict) and cached_data.get("name") == name
cached_under_name(cached_data, name) ==
    /\ cached_data.type = "dict"
    /\ "name" \in DOMAIN cached_data.items
    /\ cached_data.items["name"] = name

(***************************************************************************)
(* remove_company                                                          *)
(***************************************************************************)
\* remove_company(name) on session state ss and the cache: what it leaves
\* and what it shows
remove_company(company_name_to_remove, ss, cache, file) ==
    IF "Company Name" \notin Range(ss["df"].columns)
    THEN [session_state |-> ss, company_cache |-> cache, cache_file |-> file,
          ok |-> FALSE,
          shown |-> <<st_error("Error removing company: ", [error |-> "KeyError"])>>]
    ELSE IF has_name(ss["df"], company_name_to_remove)
    THEN LET new_df == drop_name(ss["df"], company_name_to_remove)
             cache_keys_to_delete ==
                 {key \in DOMAIN cache :
                     cached_under_name(cache[key], company_name_to_remove)}
             new_cache == [key \in DOMAIN cache \ cache_keys_to_delete |-> cache[key]]
             dummy_update == IF "dummy_update" \in DOMAIN ss
                             THEN ss["dummy_update"] ELSE 0
         IN  [session_state |-> ("df" :> new_df)
                                @@ ("dummy_update" :> dummy_update + 1) @@ ss,
              company_cache |-> new_cache,
              cache_file |-> [exists |-> TRUE, text |-> json_dump(new_cache)],
              ok |-> TRUE,
              shown |-> <<[call |-> "st.success",
                           text |-> <<"Successfully removed ">>
                                    \o company_name_to_remove \o <<".">>]>>]
    ELSE [session_state |-> ss, company_cache |-> cache, cache_file |-> file,
          ok |-> FALSE,
          shown |-> <<[call |-> "st.warning",
                       text |-> company_name_to_remove
                                \o <<" not found in the current list.">>]>>]

(***************************************************************************)
(* update_visualizations                                                   *)
(***************************************************************************)
\* the names update_visualizations can read: the module's globals and the
\* locals it has assigned before line 593
VISIBLE_NAMES ==
    {"st", "pd", "px", "io", "total_companies", "total_funding",
     "total_valuation", "avg_age", "avg_cap_eff", "avg_growth",
     "avg_gross_margin", "avg_cac", "avg_ltv", "col1", "col2", "col3", "col4",
     "fig1", "fig2", "fig3", "csv_buffer"}

\* the columns the statistics and the three scatter plots read
PLOTTED_COLUMNS ==
    {"Funding (USD)", "Valuation (USD)", "Age (Years)",
     "Capital Efficiency Score", "Growth Rate", "Gross Margin", "CAC", "LTV",
     "Runway (Months)", "Burn Rate (USD)", "TAM (USD)", "SAM (USD)",
     "Revenue (USD)", "Employee Count", "Company Name"}

call(fn, label) == [call |-> fn, text |-> <<label>>]

NO_COMPANIES == call("st.info", "No companies added yet. Add a company to see data.")

METRICS ==
    <<call("st.metric", "Total Companies"), call("st.metric", "Avg Growth Rate"),
      call("st.metric", "Avg Gross Margin"), call("st.metric", "Total Funding"),
      call("st.metric", "Avg CAC"), call("st.metric", "Avg LTV"),
      call("st.metric", "Total Valuation"), call("st.metric", "Avg Runway"),
      call("st.metric", "Avg Burn Rate"), call("st.metric", "Average Age"),
      call("st.metric", "Avg TAM"), call("st.metric", "Avg SAM")>>

PLOTS ==
    <<call("st.plotly_chart", "Growth vs Valuation"),
      call("st.plotly_chart", "LTV vs CAC"),
      call("st.plotly_chart", "Burn Rate vs Runway")>>

DOWNLOAD_AND_TABLE(file_name) ==
    <<call("st.download_button", file_name), call("st.dataframe", "df")>>

\* update_visualizations() on session state ss.  The calls into plotly
\* (px.scatter, st.plotly_chart) are taken to return
update_visualizations(ss) ==
    IF "df" \notin DOMAIN ss
    THEN [session_state |-> ("df" :> DataFrame(<<>>)) @@ ss,
          shown |-> <<NO_COMPANIES>>]
    ELSE IF Len(ss["df"].rows) = 0 \/ Len(ss["df"].columns) = 0
    THEN [session_state |-> ss, shown |-> <<NO_COMPANIES>>]
    ELSE IF ~(PLOTTED_COLUMNS \subseteq Range(ss["df"].columns))
    THEN [session_state |-> ss,
          shown |-> <<st_error("Error updating visualizations: ",
                               [error |-> "KeyError"])>>]
    ELSE LET ss1 == IF "plot_container" \in DOMAIN ss THEN ss
                    ELSE ("plot_container" :> "st.container") @@ ss
             drawn == METRICS \o PLOTS \o DOWNLOAD_AND_TABLE("vc_comparison.csv")
         IN  IF "fig" \notin VISIBLE_NAMES
             THEN [session_state |-> ss1,
                   shown |-> drawn
                             \o <<st_error("Error updating visualizations: ",
                                           [error |-> "NameError"])>>]
             ELSE [session_state |-> ss1,
                   shown |-> drawn
                             \o <<call("st.plotly_chart", "fig")>>
                             \o DOWNLOAD_AND_TABLE("radar.csv")
                             \o <<call("st.write", "No companies added yet. Add companies using the sidebar.")>>]

(***************************************************************************)
(* State                                                                   *)
(***************************************************************************)
VARIABLES
    clock,          \* datetime.now() is on the date NowDate(clock)
    session_state,  \* st.session_state of the browser session: key -> value
    company_cache,  \* the module global company_cache at the end of the run
    cache_file,     \* the file .cache/company_cache.json
    run,            \* the last script run: its event and what it showed
    success_adds    \* history: the adds of this session that succeeded

vars == <<clock, session_state, company_cache, cache_file, run, success_adds>>

\* the dates the clock takes: March 1st of the years after the dataset's
\* figures, which are dated 2024-03-01
NowDate(k) == [year |-> 2024 + k, month |-> 3, day |-> 1]

\* the entries of sample_companies
sample_companies ==
    <<[name |-> OPENAI_NAME, uuid |-> OPENAI_UUID],
      [name |-> PERPLEXITY_NAME, uuid |-> PERPLEXITY_UUID],
      [name |-> ANTHROPIC_NAME, uuid |-> ANTHROPIC_UUID],
      [name |-> DEEPSEEK_NAME, uuid |-> DEEPSEEK_UUID]>>

\* texts typed into "Add Custom Company (Crunchbase UUID or Name)"
CUSTOM_INPUTS ==
    {<<>>,
     <<"o", "p", "e", "n", "a", "i">>,
     <<"A", "N", "T", "H", "R", "O", "P", "I", "C", "-", "M", "O", "C", "K", "-", "U", "U", "I", "D", "-", "0", "0", "2">>}

\* the key an earlier revision cached a lookup string under
lookup_hash(s) == <<"md5", s>>

\* a cached company, reduced to the one key remove_company reads
cached_company(name) == [type |-> "dict", items |-> ("name" :> name)]

\* entries a cache file left by earlier runs may hold
CACHE_ENTRIES ==
    (lookup_hash(OPENAI_UUID) :> cached_company(OPENAI_NAME))
    @@ (lookup_hash(OPENAI_NAME) :> cached_company(OPENAI_NAME))
    @@ (lookup_hash(ANTHROPIC_NAME) :> cached_company(ANTHROPIC_NAME))
    @@ (lookup_hash(<<"M", "i", "s", "t", "r", "a", "l">>) :> [type |-> "NoneType"])

\* the cache file before the first run: missing, unreadable, or a JSON object
\* of some of these entries
INITIAL_FILES ==
    {[exists |-> FALSE], [exists |-> TRUE, text |-> [garbage |-> TRUE]]}
    \cup {[exists |-> TRUE,
           text |-> json_dump([k \in keys |-> CACHE_ENTRIES[k]])] :
          keys \in {DOMAIN CACHE_ENTRIES}}

NOT_CALLED == [type |-> "not called"]

Event(op, arg) == [op |-> op, arg |-> arg]

Init ==
    /\ clock \in 1..MaxClock
    /\ session_state = EMPTY_DICT
    /\ company_cache = EMPTY_DICT
    /\ cache_file \in INITIAL_FILES
    /\ run = [event |-> Event("none", <<>>), crashed |-> FALSE, ok |-> FALSE,
              fetched |-> NOT_CALLED, sidebar |-> <<>>, main |-> <<>>]
    /\ success_adds = 0

(***************************************************************************)
(* One script run                                                          *)
(***************************************************************************)
\* init_session if the frame were created without the test on "df"
init_session_always(ss) == ("df" :> DataFrame(INITIAL_COLUMNS)) @@ ss

\* lines 110-124
init_session(ss) ==
    IF "df" \notin DOMAIN ss THEN ("df" :> DataFrame(INITIAL_COLUMNS)) @@ ss
    ELSE ss

\* df["Company Name"].unique().tolist()
company_names(df) == {df.rows[i]["Company Name"].text : i \in 1..Len(df.rows)}

\* lines 642-651: the add button that was clicked, if any
sidebar_add(event, ss, cache, file, date) ==
    [company_cache |-> cache, cache_file |-> file]
    @@ IF event.op \in {"add_sample", "add_custom"}
       THEN add_company(event.arg, ss, date)
       ELSE [session_state |-> ss, ok |-> FALSE, fetched |-> NOT_CALLED,
             shown |-> <<>>]

\* lines 653-673: the section "Manage Companies"
sidebar_manage(event, ss, cache, file) ==
    IF "df" \in DOMAIN ss /\ Len(ss["df"].rows) > 0 /\ Len(ss["df"].columns) > 0
    THEN IF event.op = "remove"
         THEN remove_company(event.arg, ss, cache, file)
         ELSE [session_state |-> ss, company_cache |-> cache,
               cache_file |-> file, ok |-> FALSE,
               shown |-> IF event.op = "remove_unselected"
                         THEN <<call("st.sidebar.warning", "Please select a company to remove.")>>
                         ELSE <<>>]
    ELSE [session_state |-> ss, company_cache |-> cache, cache_file |-> file,
          ok |-> FALSE,
          shown |-> <<call("st.sidebar.info", "No companies added yet to manage.")>>]

\* lines 675-677: the main content, after the sidebar left a and then m
script_main(event, a, m, v) ==
    [session_state |-> v.session_state,
     company_cache |-> m.company_cache,
     cache_file |-> m.cache_file,
     run |-> [event |-> event, crashed |-> FALSE,
              ok |-> a.ok \/ m.ok, fetched |-> a.fetched,
              sidebar |-> a.shown \o m.shown, main |-> v.shown]]

\* lines 653-677, after the add buttons left a
script_manage(event, a, m) ==
    script_main(event, a, m, update_visualizations(m.session_state))

\* lines 630-677: the sidebar and the main content
script_sidebar(event, a) ==
    script_manage(event, a,
                  sidebar_manage(event, a.session_state, a.company_cache, a.cache_file))

\* the script after the load of the cache: a run that crashed in the load
\* shows nothing and leaves the session as it was
script_loaded(event, ss, file, date, loaded) ==
    IF loaded.crashed
    THEN [session_state |-> ss, company_cache |-> loaded.company_cache,
          cache_file |-> file,
          run |-> [event |-> event, crashed |-> TRUE, ok |-> FALSE,
                   fetched |-> NOT_CALLED, sidebar |-> <<>>, main |-> <<>>]]
    ELSE script_sidebar(event,
                        sidebar_add(event, init_session(ss),
                                    loaded.company_cache, file, date))

\* the whole script for one event
script(event, ss, file, date) ==
    script_loaded(event, ss, file, date, load_cache(file))

\* the run of the script for event on session state ss
Run(event, ss) ==
    \E r \in {script(event, ss, cache_file, NowDate(clock))} :
        /\ session_state' = r.session_state
        /\ company_cache' = r.company_cache
        /\ cache_file' = r.cache_file
        /\ run' = r.run
        /\ success_adds' = IF event.op = "open" THEN 0
                           ELSE IF event.op \in {"add_sample", "add_custom"} /\ r.run.ok
                           THEN success_adds + 1
                           ELSE success_adds
        /\ UNCHANGED clock

\* the last run drew the page with its sidebar
PageShown == run.event.op # "none" /\ ~run.crashed

(***************************************************************************)
(* Actions: one per user interaction                                       *)
(***************************************************************************)
\* a browser opens or reloads the page: a new session, whose session state
\* is empty
NewSession == Run(Event("open", <<>>), EMPTY_DICT)

\* a widget other than a button changes (the text input, the selectbox)
Rerun ==
    /\ PageShown
    /\ Run(Event("rerun", <<>>), session_state)

\* one of the buttons "Add <sample company>"
AddSample ==
    /\ PageShown
    /\ success_adds < MaxAdds
    /\ \E i \in 1..Len(sample_companies) :
        Run(Event("add_sample", sample_companies[i].uuid), session_state)

\* the button "Add Custom Company"
AddCustom ==
    /\ PageShown
    /\ success_adds < MaxAdds
    /\ \E company_input \in CUSTOM_INPUTS :
        Run(Event("add_custom", company_input), session_state)

\* the button "Remove Selected Company" with a company selected in the
\* selectbox, whose options are the names in the table
RemoveSelected ==
    /\ PageShown
    /\ (IF "dummy_update" \in DOMAIN session_state
        THEN session_state["dummy_update"] ELSE 0) < MaxUpdates
    /\ \E company_to_remove \in company_names(session_state["df"]) :
        Run(Event("remove", company_to_remove), session_state)

\* the button "Remove Selected Company" with nothing selected
RemoveUnselected ==
    /\ PageShown
    /\ Len(session_state["df"].rows) > 0
    /\ Run(Event("remove_unselected", <<>>), session_state)

Next ==
    \/ NewSession
    \/ Rerun
    \/ AddSample
    \/ AddCustom
    \/ RemoveSelected
    \/ RemoveUnselected

Spec == Init /\ [][Next]_vars

(***************************************************************************)
(* remove_company called on its own                                        *)
(***************************************************************************)
\* the names remove_company is called with: the sidebar passes only names
\* of the table, a direct call may pass any text
REMOVE_NAMES ==
    {OPENAI_NAME, ANTHROPIC_NAME, <<"M", "i", "s", "t", "r", "a", "l">>, <<>>}

\* one call remove_company(name) between two runs of the script, on the
\* session state and the cache the last run left
CallRemove ==
    /\ PageShown
    /\ \E company_name_to_remove \in REMOVE_NAMES :
        /\ has_name(session_state["df"], company_name_to_remove) =>
              (IF "dummy_update" \in DOMAIN session_state
               THEN session_state["dummy_update"] ELSE 0) < MaxUpdates
        /\ \E r \in {remove_company(company_name_to_remove, session_state,
                                    company_cache, cache_file)} :
              /\ session_state' = r.session_state
              /\ company_cache' = r.company_cache
              /\ cache_file' = r.cache_file
              /\ run' = [event |-> Event("call_remove", company_name_to_remove),
                         crashed |-> FALSE, ok |-> r.ok, fetched |-> NOT_CALLED,
                         sidebar |-> r.shown, main |-> <<>>]
        /\ UNCHANGED <<clock, success_adds>>

NextCall ==
    \/ NewSession
    \/ Rerun
    \/ AddSample
    \/ AddCustom
    \/ RemoveSelected
    \/ RemoveUnselected
    \/ CallRemove

SpecCall == Init /\ [][NextCall]_vars

(***************************************************************************)
(* Vocabulary of the properties                                            *)
(***************************************************************************)
\* the rows of the table of session state ss
Rows(ss) == IF "df" \in DOMAIN ss THEN ss["df"].rows ELSE <<>>

IsAdd(r) == r.event.op \in {"add_sample", "add_custom"}

Shows(shown, fn) == \E i \in 1..Len(shown) : shown[i].call = fn

\* a and b are the same text up to the case of their letters
SameIgnoringCase(a, b) ==
    /\ Len(a) = Len(b)
    /\ \A i \in 1..Len(a) :
          \/ a[i] = b[i]
          \/ \E j \in 1..26 : {a[i], b[i]} = {Upper[j], Lower[j]}

\* the positions of MOCK_COMPANY_KEYS whose company is named x up to case
NamedLike(x) ==
    {i \in 1..Len(MOCK_COMPANY_KEYS) :
        SameIgnoringCase(MOCK_COMPANY_DATA[MOCK_COMPANY_KEYS[i]].name, x)}

Min(S) == CHOOSE i \in S : \A j \in S : i <= j

\* x is no key of the dataset and no name of it up to case
MatchesNothing(x) == x \notin DOMAIN MOCK_COMPANY_DATA /\ NamedLike(x) = {}

\* the dataset company with this exact name
CompanyNamed(name) ==
    MOCK_COMPANY_DATA[CHOOSE k \in DOMAIN MOCK_COMPANY_DATA :
                          MOCK_COMPANY_DATA[k].name = name]

(***************************************************************************)
(* C1 *)
(***************************************************************************)
\* C1: whenever add_company has looked a string x up, fetch_company returned
\* the record stored under the key x if x is a key of the dataset, otherwise
\* the record of the first company whose name is x up to letter case,
\* otherwise None; a key match wins over a name match.
C1_FetchByUuidThenName ==
    IsAdd(run) =>
        LET x == run.event.arg
        IN  run.fetched =
               IF x \in DOMAIN MOCK_COMPANY_DATA THEN MOCK_COMPANY_DATA[x]
               ELSE IF NamedLike(x) # {}
               THEN MOCK_COMPANY_DATA[MOCK_COMPANY_KEYS[Min(NamedLike(x))]]
               ELSE None

\* a lookup by a name written in another letter case found its company
C1_Witness ==
    /\ IsAdd(run)
    /\ run.event.arg \notin DOMAIN MOCK_COMPANY_DATA
    /\ run.fetched # None
    /\ run.fetched.name # run.event.arg

(***************************************************************************)
(* C2 *)
(***************************************************************************)
\* C2: a successful add_company appends exactly one row at the end of the
\* table and leaves the rows that were there unchanged and in their order;
\* in a session without a removal the table has as many rows as adds
\* succeeded.
C2_AddAppendsOneRow ==
    /\ [][(IsAdd(run') /\ run'.ok) =>
            /\ Len(Rows(session_state')) = Len(Rows(session_state)) + 1
            /\ \A i \in 1..Len(Rows(session_state)) :
                  Rows(session_state')[i] = Rows(session_state)[i]]_vars
    /\ []("dummy_update" \notin DOMAIN session_state
            => Len(Rows(session_state)) = success_adds)

\* two adds succeeded and nothing was removed
C2_Witness ==
    /\ success_adds = 2
    /\ "dummy_update" \notin DOMAIN session_state
    /\ Len(Rows(session_state)) = 2
    /\ IsAdd(run) /\ run.ok

(***************************************************************************)
(* C3 *)
(***************************************************************************)
\* the table a run of the script starts with: nothing for the first run of a
\* session, otherwise what the session state holds
StartRows(r) == IF r.event.op = "open" THEN <<>> ELSE Rows(session_state)

\* C3 as stated: every run of the script starts with a table that holds no
\* row of an earlier interaction.
C3_RebuiltEveryRun == [][StartRows(run') = <<>>]_vars

\* C3 amended: the table is created empty only in the first run of a session;
\* every later run starts with the rows the run before it left, and a run in
\* which no add and no removal succeeds leaves the table as it found it.
C3_CarriedOver ==
    [][/\ (run'.event.op = "open" /\ ~run'.crashed)
            => session_state'["df"] = DataFrame(INITIAL_COLUMNS)
       /\ (run'.event.op # "open" /\ ~run'.ok)
            => /\ "df" \in DOMAIN session_state
               /\ session_state'["df"] = session_state["df"]]_vars

\* a run without a button click shows the two rows of earlier runs
C3_Witness ==
    /\ run.event.op = "rerun"
    /\ Len(Rows(session_state)) = 2

(***************************************************************************)
(* C4 *)
(***************************************************************************)
\* C4: whenever the table holds a company, update_visualizations completes:
\* it shows the metrics, the plots, the download and the table and no
\* 'Error updating visualizations' message.
C4_VisualizationsComplete ==
    (~run.crashed /\ Len(Rows(session_state)) > 0) =>
        /\ Shows(run.main, "st.metric")
        /\ Shows(run.main, "st.plotly_chart")
        /\ Shows(run.main, "st.download_button")
        /\ Shows(run.main, "st.dataframe")
        /\ ~Shows(run.main, "st.error")

(***************************************************************************)
(* C5 *)
(***************************************************************************)
\* the whole days from the date in text s to the date of the clock
DaysSince(s) == ToOrdinal(NowDate(clock)) - ToOrdinal(strptime(s))

\* C5: in every row, 'Age (Years)' is the whole days from the founded date
\* to now divided by 365 and is positive, and 'Capital Efficiency Score'
\* times 'Age (Years)' is 'Funding (USD)'; the age of every company of the
\* dataset is positive.
C5_FundingPerYear ==
    /\ \A i \in 1..Len(Rows(session_state)) :
          LET row == Rows(session_state)[i]
              days == DaysSince(row["Founded Date"].text)
          IN  /\ days > 0
              /\ NumMul(row["Age (Years)"], Whole(365)) = Whole(days)
              /\ NumPositive(row["Age (Years)"])
              /\ NumMul(row["Capital Efficiency Score"], row["Age (Years)"])
                    = row["Funding (USD)"]
    /\ \A k \in DOMAIN MOCK_COMPANY_DATA : DaysSince(MOCK_COMPANY_DATA[k].founded) > 0

\* the table holds a row of the youngest and a row of another company
C5_Witness ==
    /\ \E i \in 1..Len(Rows(session_state)) :
          Rows(session_state)[i]["Company Name"] = Text(PERPLEXITY_NAME)
    /\ \E i \in 1..Len(Rows(session_state)) :
          Rows(session_state)[i]["Company Name"] # Text(PERPLEXITY_NAME)

(***************************************************************************)
(* C6 *)
(***************************************************************************)
\* the position of the first "-" of text s
DashAt(s) == CHOOSE i \in 1..Len(s) : s[i] = "-" /\ \A j \in 1..(i - 1) : s[j] # "-"

\* the head counts of an employee-count band such as "51-200"
Band(s) == ParseInt(SubSeq(s, 1, DashAt(s) - 1)) .. ParseInt(SubSeq(s, DashAt(s) + 1, Len(s)))

\* the cell v is the funding of the row divided by a head count of its band
IsFundingPerEmployee(row, v) ==
    /\ IsNum(v) /\ v.n # 0
    /\ LET heads == NumDiv(row["Funding (USD)"], v)
       IN  /\ heads.d = 1 /\ heads.e >= 0 /\ heads.e <= 4
           /\ heads.n * Pow10(heads.e) \in Band(row["Employee Count"].text)

\* C6 as stated: every row carries a funding-per-employee ratio, a column
\* whose value is the total funding divided by the employee count.
C6_FundingPerEmployee ==
    \A i \in 1..Len(Rows(session_state)) :
        LET row == Rows(session_state)[i]
        IN  \E c \in DOMAIN row : IsFundingPerEmployee(row, row[c])

\* C6 amended: every row carries the employee-count band of its company as
\* the text of 'Employee Count' and no funding-per-employee ratio: no cell is
\* the total funding divided by a head count of that band.
C6_EmployeeBandOnly ==
    \A i \in 1..Len(Rows(session_state)) :
        LET row == Rows(session_state)[i]
        IN  /\ row["Employee Count"]
                  = Text(CompanyNamed(row["Company Name"].text).employee_count)
            /\ \A c \in DOMAIN row : ~IsFundingPerEmployee(row, row[c])

\* the table holds rows of two companies with different bands
C6_Witness ==
    /\ Len(Rows(session_state)) = 2
    /\ Rows(session_state)[1]["Employee Count"] # Rows(session_state)[2]["Employee Count"]

(***************************************************************************)
(* C7 *)
(***************************************************************************)
\* C7: after a successful add of the string s, company_cache and the cache
\* file hold the company's data under the hash of s.
C7_CachedUnderHash ==
    (IsAdd(run) /\ run.ok) =>
        /\ lookup_hash(run.event.arg) \in DOMAIN company_cache
        /\ cached_under_name(company_cache[lookup_hash(run.event.arg)],
                             run.fetched.name)
        /\ cache_file = [exists |-> TRUE, text |-> json_dump(company_cache)]

(***************************************************************************)
(* C8 *)
(***************************************************************************)
\* the positions of the rows not named n
Kept(rows, n) == {i \in 1..Len(rows) : rows[i]["Company Name"] # Text(n)}

Persisted(file) == IF file.exists THEN file.text.json ELSE EMPTY_DICT

\* C9: remove_company(n) for an n in the table deletes from the cache exactly
\* the entries that are a dict whose "name" is n, keeps every other entry,
\* and writes the file, which then holds the JSON of company_cache.
C9_RemoveDropsCacheEntries ==
    [][run'.event.op = "remove" =>
        LET n == run'.event.arg
            old == Persisted(cache_file)
        IN  /\ DOMAIN company_cache'
                  = {k \in DOMAIN old :
                        ~(/\ old[k].type = "dict"
                          /\ "name" \in DOMAIN old[k].items
                          /\ old[k].items["name"] = n)}
            /\ \A k \in DOMAIN company_cache' : company_cache'[k] = old[k]
            /\ cache_file'.exists
            /\ cache_file'.text = json_dump(company_cache')]_vars

\* the removal of OpenAI took its two entries and left the others
C9_Witness ==
    /\ run.event.op = "remove" /\ run.event.arg = OPENAI_NAME
    /\ lookup_hash(OPENAI_UUID) \notin DOMAIN company_cache
    /\ lookup_hash(OPENAI_NAME) \notin DOMAIN company_cache
    /\ lookup_hash(ANTHROPIC_NAME) \in DOMAIN company_cache
    /\ Cardinality(DOMAIN company_cache) = 2

(***************************************************************************)
(* C10 *)
(***************************************************************************)
\* C10: add_company(x) for an x that matches nothing shows an error and no
\* success, lets no exception escape, and leaves the table and the cache as
\* they were.
C10_UnknownCompanyIsAnError ==
    [][(IsAdd(run') /\ MatchesNothing(run'.event.arg)) =>
        /\ Shows(run'.sidebar, "st.error")
        /\ ~Shows(run'.sidebar, "st.success")
        /\ ~run'.crashed /\ Len(run'.main) > 0
        /\ session_state'["df"] = session_state["df"]
        /\ company_cache' = Persisted(cache_file)
        /\ cache_file' = cache_file]_vars

\* the empty string was looked up while the table held a row
C10_Witness ==
    /\ run.event.op = "add_custom" /\ run.event.arg = <<>>
    /\ Shows(run.sidebar, "st.error")
    /\ Len(Rows(session_state)) > 0

(***************************************************************************)
(* C11 *)
(***************************************************************************)
\* the counter of removals of session state ss, 0 before the first one
DummyUpdate(ss) == IF "dummy_update" \in DOMAIN ss THEN ss["dummy_update"] ELSE 0

\* some row of the table of ss is named n
InTable(ss, n) == \E i \in 1..Len(Rows(ss)) : Rows(ss)[i]["Company Name"] = Text(n)

\* the step is a call of remove_company, from the sidebar or on its own
IsRemove(r) == r.event.op \in {"remove", "call_remove"}

\* C11: remove_company(n) for an n that names no row shows the warning
\* "n not found in the current list." and nothing else, and leaves the
\* table, company_cache, the cache file and dummy_update as they were;
\* dummy_update grows by exactly 1 in every removal of an n in the table and
\* grows in no other step.
C11_AbsentNameOnlyWarns ==
    [][/\ (run'.event.op = "call_remove" /\ ~InTable(session_state, run'.event.arg)) =>
            /\ run'.sidebar = <<[call |-> "st.warning",
                                 text |-> run'.event.arg
                                          \o <<" not found in the current list.">>]>>
            /\ session_state' = session_state
            /\ company_cache' = company_cache
            /\ cache_file' = cache_file
       /\ IF IsRemove(run') /\ InTable(session_state, run'.event.arg)
          THEN DummyUpdate(session_state') = DummyUpdate(session_state) + 1
          ELSE DummyUpdate(session_state') <= DummyUpdate(session_state)]_vars

\* after a removal, a name that is cached but in no row of a table that has
\* rows was passed, and the warning was shown
C11_Witness ==
    /\ run.event.op = "call_remove"
    /\ ~InTable(session_state, run.event.arg)
    /\ Shows(run.sidebar, "st.warning")
    /\ Len(Rows(session_state)) > 0
    /\ DummyUpdate(session_state) = 1
    /\ \E k \in DOMAIN company_cache :
          cached_under_name(company_cache[k], run.event.arg)

====
